---- MODULE Spec2Model ----
(***************************************************************************)
(* Attendance backend of app.js: three kinds of CSV files (the roster      *)
(* students_data.csv, the registry subjects_data.csv and one sheet         *)
(* <subject>_attendance.csv per subject) and the route handlers that read, *)
(* change and rewrite them.                                                *)
(*                                                                         *)
(* A file is [exists, lines]: lines is the sequence of CSV records of the  *)
(* file, the first one the header, each a sequence of fields.  A JS object *)
(* is a sequence of <<key, value>> pairs in insertion order.               *)
(***************************************************************************)
EXTENDS Integers, Sequences, FiniteSets, TLC

VARIABLES studentsFile, subjectsFile, sheets, last, again, served, procs

vars == <<studentsFile, subjectsFile, sheets, last, again, served, procs>>

\* ---- inputs of the requests ------------------------------------------------
Names    == {"Ann", "Lee, Bo"}
Rolls    == {"1", "2"}
Descs    == {"d1", "d2"}
Subjects == {"Math", "Phys"}
Today    == "2024-01-10"
Dates    == {Today, "2024-01-11"}
Missing  == ""

\* The request bodies tried: the valid ones (the second descriptor with one
\* student only), and one with a field missing.
UpsertBodies == (Names \X Rolls \X {"d1"})
                    \cup {<<"Ann", "1", "d2">>, <<Missing, "1", "d1">>}
MarkBodies   == ({"Ann"} \X Rolls \X Subjects \X Dates)
                    \cup {<<Missing, "1", "Math", Today>>}

\* Largest number of rows a sheet is let grow to.
MaxRows == 3

\* Number of requests served in a run.
MaxRequests == 5

\* Number of calls begun in a run of handlers that interleave.
MaxCalls == 5

\* ---- JS objects ------------------------------------------------------------
Undefined == "<undefined>"

Keys(rec) == [i \in 1..Len(rec) |-> rec[i][1]]

HasKey(rec, k) == \E i \in 1..Len(rec) : rec[i][1] = k

\* rec[k]
Get(rec, k) ==
    IF HasKey(rec, k)
    THEN rec[CHOOSE i \in 1..Len(rec) : rec[i][1] = k][2]
    ELSE Undefined

\* rec[k] = v: an existing key keeps its place, a new key goes last
Set(rec, k, v) ==
    IF HasKey(rec, k)
    THEN [i \in 1..Len(rec) |-> IF rec[i][1] = k THEN <<k, v>> ELSE rec[i]]
    ELSE Append(rec, <<k, v>>)

\* ---- files -----------------------------------------------------------------
NoFile == [exists |-> FALSE, lines |-> <<>>]

File(lines) == [exists |-> TRUE, lines |-> lines]

\* csv-stringify with header: true.  The columns are the keys of the first
\* record; a record lacking a column gives an empty field, a key that is no
\* column is not written.  No record: no header either, the empty string.
stringify(data) ==
    IF data = <<>> THEN <<>>
    ELSE LET cols == Keys(data[1])
             line(rec) == [j \in 1..Len(cols) |->
                             IF Get(rec, cols[j]) = Undefined THEN "" ELSE Get(rec, cols[j])]
         IN  <<cols>> \o [i \in 1..Len(data) |-> line(data[i])]

\* readCSV: [] for a missing file; else one object per record after the
\* header, keyed by the header's fields in order.
readCSV(file) ==
    IF ~file.exists \/ file.lines = <<>> THEN <<>>
    ELSE LET h == file.lines[1]
             obj(cells) == [j \in 1..(IF Len(cells) < Len(h) THEN Len(cells) ELSE Len(h))
                              |-> <<h[j], cells[j]>>]
         IN  [i \in 1..(Len(file.lines) - 1) |-> obj(file.lines[i + 1])]

\* writeCSV(filePath, data): the file's new content
writeCSV(data) == File(stringify(data))

\* ---- array helpers ---------------------------------------------------------
\* data.findIndex(record => record.roll === roll), 0 for -1
findIndex(data, roll) ==
    IF \E i \in 1..Len(data) : Get(data[i], "roll") = roll
    THEN CHOOSE i \in 1..Len(data) :
            /\ Get(data[i], "roll") = roll
            /\ \A j \in 1..(i - 1) : Get(data[j], "roll") # roll
    ELSE 0

RECURSIVE filterOut(_, _)
\* data.filter(record => record.roll !== roll)
filterOut(data, roll) ==
    IF data = <<>> THEN <<>>
    ELSE IF Get(Head(data), "roll") # roll
         THEN <<Head(data)>> \o filterOut(Tail(data), roll)
         ELSE filterOut(Tail(data), roll)

\* subjects.some(s => s.subject === subject)
someSubject(subjects, subject) ==
    \E i \in 1..Len(subjects) : Get(subjects[i], "subject") = subject

\* ---- getOrCreateAttendanceFile ----------------------------------------------
\* students.map(student => ({name: student.name, roll: student.roll}))
seedRows(students) ==
    [i \in 1..Len(students) |->
        <<<<"name", Get(students[i], "name")>>, <<"roll", Get(students[i], "roll")>>>>]


\* getOrCreateAttendanceFile without the existsSync test: the sheet is written
\* anew from the roster at every call.
getOrCreateAttendanceFile_noTest(sh, sf, subject) ==
    [sh EXCEPT ![subject] = writeCSV(seedRows(readCSV(sf)))]

\* The sheets after getOrCreateAttendanceFile(subject), the roster being sf.
getOrCreateAttendanceFile(sh, sf, subject) ==
    IF ~sh[subject].exists
    THEN [sh EXCEPT ![subject] = writeCSV(seedRows(readCSV(sf)))]
    ELSE sh

\* ---- updateStudentAttendance -------------------------------------------------
\* students.find(s => s.roll === roll) found something
hasStudent(students, roll) == findIndex(students, roll) # 0


\* markedRows flipping the cell of a row it finds instead of setting it.
markedRows_toggle(attendanceData, students, roll, date) ==
    LET studentIndex == findIndex(attendanceData, roll)
        student      == students[findIndex(students, roll)]
        newRecord    == <<<<"name", Get(student, "name")>>,
                          <<"roll", Get(student, "roll")>>,
                          <<date, "Present">>>>
    IN  IF studentIndex = 0
        THEN Append(attendanceData, newRecord)
        ELSE [attendanceData EXCEPT ![studentIndex] =
                Set(@, date, IF Get(@, date) = "Present" THEN "" ELSE "Present")]


\* markedRows putting a fresh {name, roll, date} record in the place of the
\* row it finds: the other dates of the row are lost.
markedRows_freshRecord(attendanceData, students, roll, date) ==
    LET studentIndex == findIndex(attendanceData, roll)
        student      == students[findIndex(students, roll)]
        newRecord    == <<<<"name", Get(student, "name")>>,
                          <<"roll", Get(student, "roll")>>,
                          <<date, "Present">>>>
    IN  IF studentIndex = 0
        THEN Append(attendanceData, newRecord)
        ELSE [attendanceData EXCEPT ![studentIndex] =
                <<<<"name", Get(@, "name")>>, <<"roll", roll>>, <<date, "Present">>>>]

\* The rows written back by updateStudentAttendance, attendanceData being the
\* rows read from the sheet and students the roster (lines 86-107).
markedRows(attendanceData, students, roll, date) ==
    LET studentIndex == findIndex(attendanceData, roll)
        student      == students[findIndex(students, roll)]
        newRecord    == <<<<"name", Get(student, "name")>>,
                          <<"roll", Get(student, "roll")>>,
                          <<date, "Present">>>>
    IN  IF studentIndex = 0
        THEN Append(attendanceData, newRecord)
        ELSE [attendanceData EXCEPT ![studentIndex] = Set(@, date, "Present")]

\* updateStudentAttendance throws: no row in the sheet, no record in the roster
markThrows(sh, sf, subject, roll) ==
    /\ findIndex(readCSV(getOrCreateAttendanceFile(sh, sf, subject)[subject]), roll) = 0
    /\ ~hasStudent(readCSV(sf), roll)


\* updateStudentAttendance writing the sheet back before it looks the roll up
\* in the roster: a roll the roster lacks gets a row all the same.
updateStudentAttendance_writeFirst(sh, sf, subject, roll, date) ==
    LET sh1 == getOrCreateAttendanceFile(sh, sf, subject)
        attendanceData == readCSV(sh1[subject])
    IN  IF markThrows(sh, sf, subject, roll)
        THEN [sh1 EXCEPT ![subject] =
                writeCSV(Append(attendanceData,
                                <<<<"name", "">>, <<"roll", roll>>, <<date, "Present">>>>))]
        ELSE [sh1 EXCEPT ![subject] =
                writeCSV(markedRows(attendanceData, readCSV(sf), roll, date))]

\* The sheets after updateStudentAttendance(subject, roll, date).
updateStudentAttendance(sh, sf, subject, roll, date) ==
    LET sh1 == getOrCreateAttendanceFile(sh, sf, subject)
        attendanceData == readCSV(sh1[subject])
    IN  IF markThrows(sh, sf, subject, roll)
        THEN sh1
        ELSE [sh1 EXCEPT ![subject] =
                writeCSV(markedRows(attendanceData, readCSV(sf), roll, date))]

\* ---- requests and responses --------------------------------------------------
None == "-"

Request(op, name, roll, desc, subject, date) ==
    [op |-> op, name |-> name, roll |-> roll, desc |-> desc,
     subject |-> subject, date |-> date]

Response(req, status, out) ==
    [op |-> req.op, name |-> req.name, roll |-> req.roll, desc |-> req.desc,
     subject |-> req.subject, date |-> req.date, status |-> status, out |-> out]

SameRequest(req) ==
    /\ last.op = req.op /\ last.name = req.name /\ last.roll = req.roll
    /\ last.desc = req.desc /\ last.subject = req.subject /\ last.date = req.date

Succeeded(status) == status \in {200, 201}

\* The request is answered: last is the response, again tells a successful
\* request repeated right after itself.
Answer(req, status, out) ==
    /\ served' = served + 1
    /\ last' = Response(req, status, out)
    /\ again' = (SameRequest(req) /\ Succeeded(last.status) /\ Succeeded(status))
    /\ procs' = procs

\* The server still takes a request.
Serving == served < MaxRequests

Rows(file) == Len(readCSV(file))

RowsBounded(sh) == \A s \in Subjects : Rows(sh[s]) <= MaxRows

\* ---- POST /api/attendance ------------------------------------------------------
MarkPresent(name, roll, subject, date) ==
    /\ Serving
    /\ LET req == Request("MarkPresent", name, roll, None, subject, date)
       IN  IF name = Missing \/ roll = Missing \/ subject = Missing \/ date = Missing
           THEN /\ Answer(req, 400, <<>>)
                /\ UNCHANGED <<studentsFile, subjectsFile, sheets>>
           ELSE /\ sheets' = updateStudentAttendance(sheets, studentsFile, subject, roll, date)
                /\ RowsBounded(sheets')
                /\ Answer(req, IF markThrows(sheets, studentsFile, subject, roll)
                               THEN 500 ELSE 201, <<>>)
                /\ UNCHANGED <<studentsFile, subjectsFile>>


RECURSIVE presentEntries_anyField(_, _, _)
\* presentEntries taking every row that has the date field, whatever it holds.
presentEntries_anyField(attendanceData, subject, date) ==
    IF attendanceData = <<>> THEN <<>>
    ELSE LET record == Head(attendanceData)
             rest   == presentEntries_anyField(Tail(attendanceData), subject, date)
         IN  IF Get(record, date) # Undefined
             THEN <<[name |-> Get(record, "name"), roll |-> Get(record, "roll"),
                     date |-> date, subject |-> subject]>> \o rest
             ELSE rest

\* ---- GET /api/attendance/:subject/:date ----------------------------------------
RECURSIVE presentEntries(_, _, _)
\* attendanceData.filter(record => record[date] === 'Present').map(...)
presentEntries(attendanceData, subject, date) ==
    IF attendanceData = <<>> THEN <<>>
    ELSE LET record == Head(attendanceData)
             rest   == presentEntries(Tail(attendanceData), subject, date)
         IN  IF Get(record, date) = "Present"
             THEN <<[name |-> Get(record, "name"), roll |-> Get(record, "roll"),
                     date |-> date, subject |-> subject]>> \o rest
             ELSE rest

\* What the handler sends for (subject, date), the sheets being sh.
queryResult(sh, subject, date) ==
    IF ~sh[subject].exists THEN <<>>
    ELSE presentEntries(readCSV(sh[subject]), subject, date)

QueryByDate(subject, date) ==
    /\ Serving
    /\ Answer(Request("QueryByDate", None, None, None, subject, date), 200,
              queryResult(sheets, subject, date))
    /\ UNCHANGED <<studentsFile, subjectsFile, sheets>>

\* ---- GET /api/students ---------------------------------------------------------
listStudents(sf) == readCSV(sf)

ListStudents ==
    /\ Serving
    /\ Answer(Request("ListStudents", None, None, None, None, None), 200,
              listStudents(studentsFile))
    /\ UNCHANGED <<studentsFile, subjectsFile, sheets>>

\* ---- POST /api/students --------------------------------------------------------
studentRecord(name, roll, descriptors) ==
    <<<<"name", name>>, <<"roll", roll>>, <<"descriptors", descriptors>>>>


\* upsertStudents without the lookup of the roll: the record is always pushed.
upsertStudents_alwaysPush(students, name, roll, descriptors) ==
    Append(students, studentRecord(name, roll, descriptors))


\* upsertStudents taking the old record out and pushing the new one: the
\* record of an existing roll moves to the end.
upsertStudents_moveToEnd(students, name, roll, descriptors) ==
    Append(filterOut(students, roll), studentRecord(name, roll, descriptors))

\* The roster array written back (lines 137-144).
upsertStudents(students, name, roll, descriptors) ==
    LET existingIndex == findIndex(students, roll)
    IN  IF existingIndex # 0
        THEN [students EXCEPT ![existingIndex] = studentRecord(name, roll, descriptors)]
        ELSE Append(students, studentRecord(name, roll, descriptors))

\* attendanceData.some(record => record.roll === roll)
someRoll(attendanceData, roll) == findIndex(attendanceData, roll) # 0

RECURSIVE addToSheets(_, _, _, _, _)
\* The loop of lines 148-160 over the registry's subjects, the roster file
\* still being sf.
addToSheets(sh, sf, subjects, name, roll) ==
    IF subjects = <<>> THEN sh
    ELSE LET subject == Get(Head(subjects), "subject")
             sh1 == getOrCreateAttendanceFile(sh, sf, subject)
             attendanceData == readCSV(sh1[subject])
             sh2 == IF ~someRoll(attendanceData, roll)
                    THEN [sh1 EXCEPT ![subject] =
                            writeCSV(Append(attendanceData,
                                            <<<<"name", name>>, <<"roll", roll>>>>))]
                    ELSE sh1
         IN  addToSheets(sh2, sf, Tail(subjects), name, roll)

\* The sheets after the handler.
upsertSheets(sh, sf, rf, name, roll) ==
    IF findIndex(readCSV(sf), roll) # 0 THEN sh
    ELSE addToSheets(sh, sf, readCSV(rf), name, roll)

Upsert(name, roll, descriptors) ==
    /\ Serving
    /\ LET req == Request("Upsert", name, roll, descriptors, None, None)
       IN  IF name = Missing \/ roll = Missing \/ descriptors = Missing
           THEN /\ Answer(req, 400, <<>>)
                /\ UNCHANGED <<studentsFile, subjectsFile, sheets>>
           ELSE /\ sheets' = upsertSheets(sheets, studentsFile, subjectsFile, name, roll)
                /\ RowsBounded(sheets')
                /\ studentsFile' =
                       writeCSV(upsertStudents(readCSV(studentsFile), name, roll, descriptors))
                /\ Answer(req, 201, <<>>)
                /\ UNCHANGED subjectsFile

\* ---- DELETE /api/students/:roll ------------------------------------------------
RECURSIVE removeFromSheets(_, _, _)
\* The loop of lines 182-189.
removeFromSheets(sh, subjects, roll) ==
    IF subjects = <<>> THEN sh
    ELSE LET subject == Get(Head(subjects), "subject")
             sh1 == IF sh[subject].exists
                    THEN [sh EXCEPT ![subject] =
                            writeCSV(filterOut(readCSV(sh[subject]), roll))]
                    ELSE sh
         IN  removeFromSheets(sh1, Tail(subjects), roll)

Delete(roll) ==
    /\ Serving
    /\ studentsFile' = writeCSV(filterOut(readCSV(studentsFile), roll))
    /\ sheets' = removeFromSheets(sheets, readCSV(subjectsFile), roll)
    /\ Answer(Request("Delete", None, roll, None, None, None), 200, <<>>)
    /\ UNCHANGED subjectsFile

\* ---- DELETE /api/students ------------------------------------------------------
RECURSIVE clearSheets(_, _)
\* The loop of lines 207-212.
clearSheets(sh, subjects) ==
    IF subjects = <<>> THEN sh
    ELSE LET subject == Get(Head(subjects), "subject")
             sh1 == IF sh[subject].exists
                    THEN [sh EXCEPT ![subject] = writeCSV(<<>>)]
                    ELSE sh
         IN  clearSheets(sh1, Tail(subjects))

Clear ==
    /\ Serving
    /\ studentsFile' = writeCSV(<<>>)
    /\ sheets' = clearSheets(sheets, readCSV(subjectsFile))
    /\ Answer(Request("Clear", None, None, None, None, None), 200, <<>>)
    /\ UNCHANGED subjectsFile

\* ---- DELETE /api/attendance ----------------------------------------------------
\* Every file of the attendance directory is unlinked.
deleteAllSheets(sh) == [s \in Subjects |-> NoFile]

DeleteAll ==
    /\ Serving
    /\ sheets' = deleteAllSheets(sheets)
    /\ Answer(Request("DeleteAll", None, None, None, None, None), 200, <<>>)
    /\ UNCHANGED <<studentsFile, subjectsFile>>

\* ---- DELETE /api/attendance/today ----------------------------------------------
\* The handler works on the text of the file: split('\n') and split(',').  A
\* field that holds a comma is written quoted by stringify and is cut in two
\* raw cells by split(','); every other field is one raw cell.
Quoted == {n \in Names : n = "Lee, Bo"}

rawWidth(field) == IF field \in Quoted THEN 2 ELSE 1

\* What is left of a quoted field when one of its two raw cells is spliced out.
BrokenField == "<half of a quoted field>"

RECURSIVE rawIndexOf(_, _)
\* rows[0].indexOf(today), counted from 1; 0 for -1
rawIndexOf(line, cell) ==
    IF line = <<>> THEN 0
    ELSE IF Head(line) = cell /\ rawWidth(Head(line)) = 1 THEN 1
    ELSE LET rest == rawIndexOf(Tail(line), cell)
         IN  IF rest = 0 THEN 0 ELSE rawWidth(Head(line)) + rest

RECURSIVE spliceRaw(_, _)
\* row.splice(dateIndex, 1) on the raw cells of the line, then join(',')
spliceRaw(line, dateIndex) ==
    IF line = <<>> THEN <<>>
    ELSE IF dateIndex > rawWidth(Head(line))
         THEN <<Head(line)>> \o spliceRaw(Tail(line), dateIndex - rawWidth(Head(line)))
         ELSE IF rawWidth(Head(line)) = 1
              THEN Tail(line)
              ELSE <<BrokenField>> \o Tail(line)

\* dateIndex of the handler, 0 for -1 (an empty file splits to [['']])
todayIndex(file) ==
    IF file.lines = <<>> THEN 0 ELSE rawIndexOf(file.lines[1], Today)

\* The file written back at line 271.
withoutTodayColumn(file) ==
    File([i \in 1..Len(file.lines) |-> spliceRaw(file.lines[i], todayIndex(file))])

deleteTodayStatus(sh, subject) ==
    IF subject = Missing THEN 400
    ELSE IF ~sh[subject].exists THEN 404
    ELSE IF todayIndex(sh[subject]) = 0 THEN 404
    ELSE 200

DeleteTodayColumn(subject) ==
    /\ Serving
    /\ LET status == deleteTodayStatus(sheets, subject)
       IN  /\ sheets' = IF status = 200
                        THEN [sheets EXCEPT ![subject] = withoutTodayColumn(sheets[subject])]
                        ELSE sheets
           /\ Answer(Request("DeleteTodayColumn", None, None, None, subject, None), status, <<>>)
           /\ UNCHANGED <<studentsFile, subjectsFile>>

\* ---- GET /api/subjects ---------------------------------------------------------
subjectRecord(subject) == <<<<"subject", subject>>>>

\* file.replace('_attendance.csv', '') of the sheet file of a subject
fileSubject(subject) == subject

\* fs.readdirSync(ATTENDANCE_DIR): the sheet files, in the order the file
\* system lists them.
Listings(sh) ==
    LET present == {s \in Subjects : sh[s].exists}
    IN  {order \in [1..Cardinality(present) -> present] :
            \A i, j \in 1..Cardinality(present) : i # j => order[i] # order[j]}


RECURSIVE mergeSubjects_alwaysPush(_, _)
\* mergeSubjects without the lookup in the list: every sheet file is pushed.
mergeSubjects_alwaysPush(subjects, attendanceFiles) ==
    IF attendanceFiles = <<>> THEN subjects
    ELSE mergeSubjects_alwaysPush(
            Append(subjects, subjectRecord(fileSubject(Head(attendanceFiles)))),
            Tail(attendanceFiles))

RECURSIVE mergeSubjects(_, _)
\* The loop of lines 289-297.
mergeSubjects(subjects, attendanceFiles) ==
    IF attendanceFiles = <<>> THEN subjects
    ELSE LET subjectName == fileSubject(Head(attendanceFiles))
         IN  mergeSubjects(IF ~someSubject(subjects, subjectName)
                           THEN Append(subjects, subjectRecord(subjectName))
                           ELSE subjects,
                           Tail(attendanceFiles))

subjectNames(subjects) == [i \in 1..Len(subjects) |-> Get(subjects[i], "subject")]

ListSubjects ==
    /\ Serving
    /\ \E attendanceFiles \in Listings(sheets) :
           LET subjects == mergeSubjects(readCSV(subjectsFile), attendanceFiles)
           IN  /\ subjectsFile' = writeCSV(subjects)
               /\ Answer(Request("ListSubjects", None, None, None, None, None), 200,
                         subjectNames(subjects))
               /\ UNCHANGED <<studentsFile, sheets>>

\* ---- POST /api/subjects --------------------------------------------------------
createStatus(rf, subject) ==
    IF subject = Missing THEN 400
    ELSE IF someSubject(readCSV(rf), subject) THEN 409
    ELSE 201

\* The registry file after the handler.
createRegistry(rf, subject) ==
    IF createStatus(rf, subject) = 201
    THEN writeCSV(Append(readCSV(rf), subjectRecord(subject)))
    ELSE rf


\* createSheets making the sheet before the registry is looked at.
createSheets_beforeCheck(sh, sf, rf, subject) ==
    IF subject # Missing THEN getOrCreateAttendanceFile(sh, sf, subject) ELSE sh

\* The sheets after the handler.
createSheets(sh, sf, rf, subject) ==
    IF createStatus(rf, subject) = 201
    THEN getOrCreateAttendanceFile(sh, sf, subject)
    ELSE sh

Create(subject) ==
    /\ Serving
    /\ subjectsFile' = createRegistry(subjectsFile, subject)
    /\ sheets' = createSheets(sheets, studentsFile, subjectsFile, subject)
    /\ Answer(Request("Create", None, None, None, subject, None),
              createStatus(subjectsFile, subject), <<>>)
    /\ UNCHANGED studentsFile

\* ---- the handlers, one await at a time -------------------------------------------
\* An async handler runs from one await of file I/O to the next; between two of
\* its awaits the handlers of other requests may run.  A call in progress is
\*   pc        the line of app.js whose await is pending, 0 when there is none
\*   req       the request
\*   students  the handler's array students
\*   subjects  the handler's array subjects; in a for loop over it, what is left
\*             of it, the subject of the iteration first
\*   data      the array attendanceData
\*   status    the status sent, 0 as long as none is
\*   threw     the line whose await or statement threw, 0 when none did
\*   overtook  the write of a MarkPresent ended with its mark in the sheet
\*             while another call, for another roll of the subject, had read
\*             the sheet and not yet written it
\* Calls that can be in progress together.
Procs == {1, 2}

NewProc(req) ==
    [pc |-> 0, req |-> req, students |-> <<>>, subjects |-> <<>>, data |-> <<>>,
     status |-> 0, threw |-> 0, overtook |-> FALSE]

\* The files as a handler finds them; listing is what readdirSync gives.
Disk(sf, rf, sh, listing) ==
    [students |-> sf, subjects |-> rf, sheets |-> sh, listing |-> listing]

\* The lines that await readCSV and those that await writeCSV.
Reads  == {65, 83, 90, 134, 147, 150, 174, 181, 185, 204, 285, 317}
Writes == {74, 109, 158, 163, 178, 187, 201, 210, 300, 325}

\* The lines whose file is STUDENTS_FILE, and SUBJECTS_FILE; the other lines
\* read or write the sheet of the subject at hand.
OnRoster   == {65, 90, 134, 163, 174, 178, 201}
OnRegistry == {147, 181, 204, 285, 300, 317, 325}

\* The subject of the sheet at hand: the request's, or the loop's.
currentSubject(proc) ==
    IF proc.req.op \in {"MarkPresent", "Create"}
    THEN proc.req.subject
    ELSE Get(Head(proc.subjects), "subject")

\* The file of the pending await.
pendingFile(disk, proc) ==
    IF proc.pc \in OnRoster THEN disk.students
    ELSE IF proc.pc \in OnRegistry THEN disk.subjects
    ELSE disk.sheets[currentSubject(proc)]

\* The array handed to writeCSV at the line; stringify runs at the call.
payload(proc) ==
    IF proc.pc \in {163, 178} THEN proc.students
    ELSE IF proc.pc \in {300, 325} THEN proc.subjects
    ELSE IF proc.pc \in {201, 210} THEN <<>>
    ELSE proc.data

\* The disk once the file of the pending await is the given one.
store(disk, proc, file) ==
    IF proc.pc \in OnRoster THEN [disk EXCEPT !.students = file]
    ELSE IF proc.pc \in OnRegistry THEN [disk EXCEPT !.subjects = file]
    ELSE [disk EXCEPT !.sheets[currentSubject(proc)] = file]


\* written reading the sheet again at line 109 and marking what it finds: the
\* read and the write of a mark are one step.
written_readAgain(disk, proc) ==
    store(disk, proc,
          writeCSV(IF proc.pc = 109
                   THEN markedRows(readCSV(pendingFile(disk, proc)), readCSV(disk.students),
                                   proc.req.roll, proc.req.date)
                   ELSE payload(proc)))

\* fs.promises.writeFile of line 55 has replaced the file.
written(disk, proc) == store(disk, proc, writeCSV(payload(proc)))

\* The response is sent: the call is over, its locals are gone.
finish(proc, status) == [NewProc(proc.req) EXCEPT !.status = status]


\* caught answering the error as a bad request.
caught_badRequest(proc) == [finish(proc, 400) EXCEPT !.threw = proc.pc]

\* The catch block of a handler (lines 165-167, 192-194, 215-218, 303-305,
\* 331-333, 347-349): the error is answered with 500, nothing is undone.
caught(proc) == [finish(proc, 500) EXCEPT !.threw = proc.pc]

\* Where getOrCreateAttendanceFile returns to.
returnLine(proc) ==
    IF proc.req.op = "Upsert" THEN 150
    ELSE IF proc.req.op = "MarkPresent" THEN 83
    ELSE 330

RECURSIVE call(_, _, _), resume(_, _, _)
\* Control reaches the line.  A line that sends the response ends the call; a
\* line that tests something goes on to the next line; a line that awaits I/O
\* leaves the call pending there, but for a readCSV of a file existsSync does
\* not find (line 39), which resolves to [] at once.
call(proc, line, disk) ==
    CASE line \in {131, 314, 342} -> finish(proc, 400)
      [] line \in {164, 330, 346} -> finish(proc, 201)
      [] line \in {191, 214, 302} -> finish(proc, 200)
      [] line = 321 -> finish(proc, 409)
      [] line = 105 -> caught([proc EXCEPT !.pc = 105])
      [] line = 64 ->
            IF disk.sheets[currentSubject(proc)].exists
            THEN call(proc, returnLine(proc), disk)
            ELSE call(proc, 65, disk)
      [] line = 148 ->
            IF proc.subjects = <<>> THEN call(proc, 163, disk) ELSE call(proc, 64, disk)
      [] line = 182 ->
            IF proc.subjects = <<>> THEN call(proc, 191, disk)
            ELSE IF disk.sheets[currentSubject(proc)].exists
                 THEN call(proc, 185, disk)
                 ELSE call([proc EXCEPT !.subjects = Tail(@)], 182, disk)
      [] line = 207 ->
            IF proc.subjects = <<>> THEN call(proc, 214, disk)
            ELSE IF disk.sheets[currentSubject(proc)].exists
                 THEN call(proc, 210, disk)
                 ELSE call([proc EXCEPT !.subjects = Tail(@)], 207, disk)
      [] OTHER ->
            LET pending == [proc EXCEPT !.pc = line]
            IN  IF line \in Reads /\ ~pendingFile(disk, pending).exists
                THEN resume(pending, <<>>, disk)
                ELSE pending

\* The await of line proc.pc is over, a readCSV having given result: the code
\* from there to the next line that call stops at.
resume(proc, result, disk) ==
    LET req == proc.req
    IN  CASE proc.pc = 65 -> call([proc EXCEPT !.data = seedRows(result)], 74, disk)
          [] proc.pc = 74 -> call([proc EXCEPT !.data = <<>>], returnLine(proc), disk)
          [] proc.pc = 83 ->
                IF findIndex(result, req.roll) = 0
                THEN call([proc EXCEPT !.data = result], 90, disk)
                ELSE call([proc EXCEPT !.data = markedRows(result, <<>>, req.roll, req.date)],
                          109, disk)
          [] proc.pc = 90 ->
                IF hasStudent(result, req.roll)
                THEN call([proc EXCEPT
                              !.data = markedRows(proc.data, result, req.roll, req.date)],
                          109, disk)
                ELSE call(proc, 105, disk)
          [] proc.pc = 109 -> call(proc, 346, disk)
          [] proc.pc = 134 ->
                call([proc EXCEPT
                         !.students = upsertStudents(result, req.name, req.roll, req.desc)],
                     IF findIndex(result, req.roll) # 0 THEN 163 ELSE 147, disk)
          [] proc.pc = 147 -> call([proc EXCEPT !.subjects = result], 148, disk)
          [] proc.pc = 150 ->
                IF ~someRoll(result, req.roll)
                THEN call([proc EXCEPT
                              !.data = Append(result, <<<<"name", req.name>>,
                                                        <<"roll", req.roll>>>>)],
                          158, disk)
                ELSE call([proc EXCEPT !.subjects = Tail(@)], 148, disk)
          [] proc.pc = 158 ->
                call([proc EXCEPT !.subjects = Tail(@), !.data = <<>>], 148, disk)
          [] proc.pc = 163 -> call(proc, 164, disk)
          [] proc.pc = 174 ->
                call([proc EXCEPT !.students = filterOut(result, req.roll)], 178, disk)
          [] proc.pc = 178 -> call(proc, 181, disk)
          [] proc.pc = 181 -> call([proc EXCEPT !.subjects = result], 182, disk)
          [] proc.pc = 185 ->
                call([proc EXCEPT !.data = filterOut(result, req.roll)], 187, disk)
          [] proc.pc = 187 ->
                call([proc EXCEPT !.subjects = Tail(@), !.data = <<>>], 182, disk)
          [] proc.pc = 201 -> call(proc, 204, disk)
          [] proc.pc = 204 -> call([proc EXCEPT !.subjects = result], 207, disk)
          [] proc.pc = 210 -> call([proc EXCEPT !.subjects = Tail(@)], 207, disk)
          [] proc.pc = 285 ->
                call([proc EXCEPT !.subjects = mergeSubjects(result, disk.listing)],
                     300, disk)
          [] proc.pc = 300 -> call(proc, 302, disk)
          [] proc.pc = 317 ->
                IF someSubject(result, req.subject)
                THEN call(proc, 321, disk)
                ELSE call([proc EXCEPT
                              !.subjects = Append(result, subjectRecord(req.subject))],
                          325, disk)
          [] proc.pc = 325 -> call(proc, 64, disk)

\* ---- the server ------------------------------------------------------------------
\* A fresh data directory: no roster, no registry, no sheet.
Init ==
    /\ studentsFile = NoFile
    /\ subjectsFile = NoFile
    /\ sheets = [s \in Subjects |-> NoFile]
    /\ last = Response(Request("Start", None, None, None, None, None), 200, <<>>)
    /\ again = FALSE
    /\ served = 0
    /\ procs = [p \in Procs |-> NewProc(Request("Start", None, None, None, None, None))]

\* The requests are handled one at a time.
Next ==
    \/ \E body \in UpsertBodies : Upsert(body[1], body[2], body[3])
    \/ ListStudents
    \/ \E roll \in Rolls : Delete(roll)
    \/ Clear
    \/ DeleteAll
    \/ \E subject \in Subjects \cup {Missing} : DeleteTodayColumn(subject)
    \/ ListSubjects
    \/ \E subject \in Subjects \cup {Missing} : Create(subject)
    \/ \E body \in MarkBodies : MarkPresent(body[1], body[2], body[3], body[4])
    \/ \E subject \in Subjects, date \in Dates : QueryByDate(subject, date)

Spec == Init /\ [][Next]_vars

\* ---- what the files hold, read off their lines ----------------------------------
\* Position of a column in the header of the file, 0 when it has none.
Column(file, key) ==
    IF file.lines = <<>> THEN 0
    ELSE IF \E j \in 1..Len(file.lines[1]) : file.lines[1][j] = key
         THEN CHOOSE j \in 1..Len(file.lines[1]) : file.lines[1][j] = key
         ELSE 0

\* The lines of the file that are rows (all but the header).
RowLines(file) == IF file.lines = <<>> THEN {} ELSE 2..Len(file.lines)

\* The field of row line i under the column, "" when there is none.
Field(file, i, key) ==
    IF Column(file, key) = 0 \/ Column(file, key) > Len(file.lines[i]) THEN ""
    ELSE file.lines[i][Column(file, key)]

SheetRolls(file) == {Field(file, i, "roll") : i \in RowLines(file)}

RosterRolls == SheetRolls(studentsFile)

Registered == {Field(subjectsFile, i, "subject") : i \in RowLines(subjectsFile)}

DateColumns(file) ==
    IF file.lines = <<>> THEN {}
    ELSE {file.lines[1][j] : j \in 1..Len(file.lines[1])} \ {"name", "roll"}

\* The rolls marked present on the date in the file.
PresentRolls(file, date) ==
    {Field(file, i, "roll") : i \in {k \in RowLines(file) : Field(file, k, date) = "Present"}}

\* The rolls of the entries of a QueryByDate response.
EntryRolls(out) == {out[i].roll : i \in 1..Len(out)}

\* The sheet is the one a fresh seeding from the roster gives: one {name, roll}
\* row per roster record, in roster order, and no date column.
SeededFrom(sheet, roster) ==
    /\ sheet.exists
    /\ DateColumns(sheet) = {}
    /\ Len(sheet.lines) = Len(roster.lines)
    /\ \A i \in RowLines(roster) :
          sheet.lines[i] = <<Field(roster, i, "name"), Field(roster, i, "roll")>>

\* Every line of every file has as many fields as the header, and no quoted
\* field is ever cut by the splice of DeleteTodayColumn: the cases readCSV and
\* spliceRaw leave aside do not arise.
FilesWellFormed ==
    \A file \in {studentsFile, subjectsFile} \cup {sheets[s] : s \in Subjects} :
        \A i \in 1..Len(file.lines) :
            /\ Len(file.lines[i]) = Len(file.lines[1])
            /\ \A j \in 1..Len(file.lines[i]) : file.lines[i][j] # BrokenField

\* ---- requests whose handlers interleave ------------------------------------------
\* One more call may begin.
Calling == served < MaxCalls

\* The files after a writeFile that failed: the file as it was, or the first
\* lines of what was being written.
tornFiles(old, new) ==
    {old} \cup {File(SubSeq(new.lines, 1, k)) : k \in 0..(Len(new.lines) - 1)}

\* Call p begins with the request: the handler runs to its first pending await.
Enter(p, req, line) ==
    /\ procs[p].pc = 0
    /\ \E listing \in Listings(sheets) :
          procs' = [procs EXCEPT ![p] =
                       call(NewProc(req), line,
                            Disk(studentsFile, subjectsFile, sheets, listing))]
    /\ served' = served + 1
    /\ UNCHANGED <<studentsFile, subjectsFile, sheets, last, again>>

StartUpsert(p, name, roll, descriptors) ==
    /\ Calling
    /\ Enter(p, Request("Upsert", name, roll, descriptors, None, None),
             IF name = Missing \/ roll = Missing \/ descriptors = Missing
             THEN 131 ELSE 134)

StartDelete(p, roll) ==
    /\ Calling
    /\ Enter(p, Request("Delete", None, roll, None, None, None), 174)

StartClear(p) ==
    /\ Calling
    /\ Enter(p, Request("Clear", None, None, None, None, None), 201)

StartListSubjects(p) ==
    /\ Calling
    /\ Enter(p, Request("ListSubjects", None, None, None, None, None), 285)

StartCreate(p, subject) ==
    /\ Calling
    /\ Enter(p, Request("Create", None, None, None, subject, None),
             IF subject = Missing THEN 314 ELSE 317)

StartMarkPresent(p, name, roll, subject, date) ==
    /\ Calling
    /\ Enter(p, Request("MarkPresent", name, roll, None, subject, date),
             IF name = Missing \/ roll = Missing \/ subject = Missing \/ date = Missing
             THEN 342 ELSE 64)

\* The pending await of call p ends: a read gives what the file holds now, a
\* write has replaced the file; the handler runs on to its next pending await.
Complete(p) ==
    /\ procs[p].pc # 0
    /\ \E listing \in Listings(sheets) :
          LET proc  == procs[p]
              disk  == Disk(studentsFile, subjectsFile, sheets, listing)
              disk1 == IF proc.pc \in Writes THEN written(disk, proc) ELSE disk
              next  == resume(proc, readCSV(pendingFile(disk, proc)), disk1)
          IN  /\ studentsFile' = disk1.students
              /\ subjectsFile' = disk1.subjects
              /\ sheets' = disk1.sheets
              /\ procs' = [procs EXCEPT ![p] =
                    [next EXCEPT !.overtook =
                        /\ proc.pc = 109
                        /\ proc.req.roll
                              \in PresentRolls(disk1.sheets[proc.req.subject],
                                               proc.req.date)
                        /\ \E q \in Procs \ {p} :
                              /\ procs[q].pc = 109
                              /\ procs[q].req.subject = proc.req.subject
                              /\ procs[q].req.roll # proc.req.roll]]
    /\ UNCHANGED <<last, again, served>>

\* The pending writeFile of call p rejects: the await throws into the catch.
WriteFails(p) ==
    /\ procs[p].pc \in Writes
    /\ LET proc == procs[p]
           disk == Disk(studentsFile, subjectsFile, sheets, <<>>)
       IN  \E file \in tornFiles(pendingFile(disk, proc), writeCSV(payload(proc))) :
              /\ studentsFile' = store(disk, proc, file).students
              /\ subjectsFile' = store(disk, proc, file).subjects
              /\ sheets' = store(disk, proc, file).sheets
              /\ procs' = [procs EXCEPT ![p] = caught(proc)]
    /\ UNCHANGED <<last, again, served>>

\* Marks of two rolls of one subject, by calls that interleave.
NextRace ==
    \/ \E p \in Procs, roll \in Rolls : StartUpsert(p, "Ann", roll, "d1")
    \/ \E p \in Procs, roll \in Rolls, date \in Dates :
          StartMarkPresent(p, "Ann", roll, "Math", date)
    \/ \E p \in Procs : Complete(p)

SpecRace == Init /\ [][NextRace]_vars

\* The handlers that write the roster and the registry, by calls that interleave.
NextShared ==
    \/ \E p \in Procs, name \in Names : StartUpsert(p, name, "1", "d1")
    \/ \E p \in Procs : StartDelete(p, "1")
    \/ \E p \in Procs : StartClear(p)
    \/ \E p \in Procs : StartListSubjects(p)
    \/ \E p \in Procs, subject \in Subjects : StartCreate(p, subject)
    \/ \E p \in Procs : Complete(p)

SpecShared == Init /\ [][NextShared]_vars

\* The cascades of one call at a time, any of whose writes may fail.
NextFail ==
    \/ \E roll \in Rolls : StartUpsert(1, "Ann", roll, "d1")
    \/ \E roll \in Rolls : StartDelete(1, roll)
    \/ \E subject \in Subjects : StartCreate(1, subject)
    \/ Complete(1)
    \/ WriteFails(1)

SpecFail == Init /\ [][NextFail]_vars

\* ---- C1 ----------------------------------------------------------------------------
\* C1: after a MarkPresent(subject, roll, date) that succeeded, QueryByDate(subject,
\* date) has an entry for roll, whatever the position of the row and whether or not
\* the sheet had the date column.
C1_MarkedIsQueried ==
    (last.op = "MarkPresent" /\ last.status = 201)
        => last.roll \in EntryRolls(queryResult(sheets, last.subject, last.date))

\* ---- C2 ----------------------------------------------------------------------------
\* C2: after Delete(roll), no existing sheet has a row with that roll, and
\* QueryByDate has no entry for it, for any subject and date.
C2_DeletedIsGone ==
    last.op = "Delete"
        => \A subject \in Subjects :
              /\ last.roll \notin SheetRolls(sheets[subject])
              /\ \A date \in Dates :
                    last.roll \notin EntryRolls(queryResult(sheets, subject, date))

\* ---- C3 ----------------------------------------------------------------------------
\* C3: right after a Create(name) that succeeded, the sheet of name has exactly one
\* {name, roll} row per roster record and no date column.
C3_CreatedIsSeeded ==
    (last.op = "Create" /\ last.status = 201)
        => SeededFrom(sheets[last.subject], studentsFile)

\* ---- C4 ----------------------------------------------------------------------------
\* C4: after every completed operation the rolls that have a row in any existing
\* sheet are rolls of the roster.
C4_SheetRollsInRoster ==
    \A subject \in Subjects : SheetRolls(sheets[subject]) \subseteq RosterRolls

\* ---- C5 ----------------------------------------------------------------------------
\* C5: every sheet has at most one row per roll number.
C5_OneRowPerRoll ==
    \A subject \in Subjects :
        \A i, j \in RowLines(sheets[subject]) :
            Field(sheets[subject], i, "roll") = Field(sheets[subject], j, "roll") => i = j

\* ---- C6 ----------------------------------------------------------------------------
\* The rows of the roster that hold the roll.
RosterLinesOf(roster, roll) == {i \in RowLines(roster) : Field(roster, i, "roll") = roll}

\* C6: after an Upsert(name, roll, descriptors) of valid fields the roster lists
\* exactly one record with that roll, equal to {name, roll, descriptors}; the same
\* Upsert made again right after leaves the roster and every sheet as they were.
C6_UpsertOnceAndIdempotent ==
    [][(last'.op = "Upsert" /\ last'.status = 201)
        => /\ Cardinality(RosterLinesOf(studentsFile', last'.roll)) = 1
           /\ \A i \in RosterLinesOf(studentsFile', last'.roll) :
                 listStudents(studentsFile')[i - 1]
                     = <<<<"name", last'.name>>, <<"roll", last'.roll>>,
                         <<"descriptors", last'.desc>>>>
           /\ again' => (studentsFile' = studentsFile /\ sheets' = sheets)]_vars

\* An Upsert of a roll the roster already had, repeated, some sheet holding the roll.
C6_Witness ==
    /\ last.op = "Upsert" /\ last.status = 201 /\ again
    /\ Len(studentsFile.lines) = 3
    /\ \E subject \in Subjects : last.roll \in SheetRolls(sheets[subject])

\* ---- C7 ----------------------------------------------------------------------------
SameAsLast ==
    /\ last'.op = last.op /\ last'.name = last.name /\ last'.roll = last.roll
    /\ last'.desc = last.desc /\ last'.subject = last.subject /\ last'.date = last.date

\* C7: a MarkPresent that succeeded, made again with the same arguments, succeeds
\* and leaves the sheets, the roster and the registry as the first call left them.
C7_MarkIdempotent ==
    [][(last.op = "MarkPresent" /\ last.status = 201 /\ served' # served /\ SameAsLast)
        => /\ last'.status = 201
           /\ sheets' = sheets
           /\ studentsFile' = studentsFile
           /\ subjectsFile' = subjectsFile]_vars

\* The mark repeated on a sheet of two rows where it is recorded.
C7_Witness ==
    /\ last.op = "MarkPresent" /\ last.status = 201 /\ again
    /\ Len(sheets[last.subject].lines) = 3
    /\ last.roll \in PresentRolls(sheets[last.subject], last.date)

\* ---- C8 ----------------------------------------------------------------------------
\* The row lines of the file whose field under the date is "Present".
PresentLines(file, date) == {i \in RowLines(file) : Field(file, i, date) = "Present"}

\* The k-th of them, in file order.
NthPresentLine(file, date, k) ==
    CHOOSE i \in PresentLines(file, date) :
        Cardinality({j \in PresentLines(file, date) : j < i}) = k - 1

\* C8: QueryByDate(subject, date) returns one entry {name, roll, date, subject} for
\* each row whose date field is "Present", in sheet order, and none for any other
\* row; the empty sequence when the subject has no sheet; and it changes no file.
C8_QueryIsPresentRows ==
    [][last'.op = "QueryByDate"
        => LET file == sheets[last'.subject]
               out  == last'.out
           IN  /\ last'.status = 200
               /\ Len(out) = Cardinality(PresentLines(file, last'.date))
               /\ \A k \in 1..Len(out) :
                     out[k] = [name    |-> Field(file, NthPresentLine(file, last'.date, k), "name"),
                               roll    |-> Field(file, NthPresentLine(file, last'.date, k), "roll"),
                               date    |-> last'.date,
                               subject |-> last'.subject]
               /\ ~file.exists => out = <<>>
               /\ sheets' = sheets
               /\ studentsFile' = studentsFile
               /\ subjectsFile' = subjectsFile]_vars

\* A query that returns a row and leaves out a row whose field is empty.
C8_Witness ==
    /\ last.op = "QueryByDate"
    /\ Len(last.out) >= 1
    /\ \E i \in RowLines(sheets[last.subject]) :
          /\ Column(sheets[last.subject], last.date) # 0
          /\ Field(sheets[last.subject], i, last.date) = ""

\* ---- C9 ----------------------------------------------------------------------------
\* C9: Create(name) of a name the registry has answers 409 and leaves the
\* registry, the roster and every sheet as they are; a sheet DeleteAll removed is
\* not made again.
C9_CreateConflict ==
    [][(last'.op = "Create" /\ last'.subject \in Registered)
        => /\ last'.status = 409
           /\ subjectsFile' = subjectsFile
           /\ studentsFile' = studentsFile
           /\ sheets' = sheets]_vars

\* The conflict on a subject whose sheet is gone, the roster having a student.
C9_Witness ==
    /\ last.op = "Create" /\ last.status = 409
    /\ ~sheets[last.subject].exists
    /\ RosterRolls # {}

\* ---- C10 ---------------------------------------------------------------------------
\* C10: MarkPresent for a roll with no row in the sheet and no record in the roster
\* answers the student-not-found error (500); the roster, the registry and the
\* other sheets stay; the subject's sheet stays as it is when it exists, and is
\* made, seeded from the roster, when it does not.
C10_MarkUnknownRoll ==
    [][(/\ last'.op = "MarkPresent" /\ last'.name # Missing
        /\ last'.roll \notin SheetRolls(sheets[last'.subject])
        /\ last'.roll \notin RosterRolls)
        => /\ last'.status = 500
           /\ studentsFile' = studentsFile
           /\ subjectsFile' = subjectsFile
           /\ \A subject \in Subjects \ {last'.subject} : sheets'[subject] = sheets[subject]
           /\ IF sheets[last'.subject].exists
              THEN sheets'[last'.subject] = sheets[last'.subject]
              ELSE SeededFrom(sheets'[last'.subject], studentsFile)]_vars

\* The error on a sheet that has a row of another student, marked.
C10_Witness ==
    /\ last.op = "MarkPresent" /\ last.status = 500
    /\ RosterRolls # {}
    /\ \E date \in Dates : PresentRolls(sheets[last.subject], date) # {}

\* ---- C12 ---------------------------------------------------------------------------
\* The row lines of the file that hold the roll.
LinesOfRoll(file, roll) == {i \in RowLines(file) : Field(file, i, "roll") = roll}

\* The fields of the line under the date columns of the file.
DateFields(file, i) == {Field(file, i, date) : date \in DateColumns(file)}

\* C12: after an Upsert of a roll the roster did not have, every sheet that exists
\* has exactly one row with that roll; the sheet is as it was when it already had
\* a row for the roll, else the row is the bare {name, roll} row.
C12_UpsertReachesEverySheet ==
    [][(last'.op = "Upsert" /\ last'.status = 201 /\ last'.roll \notin RosterRolls)
        => \A subject \in Subjects :
              sheets'[subject].exists
                  => /\ Cardinality(LinesOfRoll(sheets'[subject], last'.roll)) = 1
                     /\ IF last'.roll \in SheetRolls(sheets[subject])
                        THEN sheets'[subject] = sheets[subject]
                        ELSE \A i \in LinesOfRoll(sheets'[subject], last'.roll) :
                                /\ Field(sheets'[subject], i, "name") = last'.name
                                /\ DateFields(sheets'[subject], i) \subseteq {""}]_vars

\* ---- C13 ---------------------------------------------------------------------------
\* C13: an Upsert of a roll the roster has puts {name, roll, descriptors} in the
\* place of that record, leaves every other roster line where and as it was, and
\* changes no sheet nor the registry.
C13_UpsertReplacesInPlace ==
    [][(last'.op = "Upsert" /\ last'.status = 201 /\ last'.roll \in RosterRolls)
        => /\ Len(studentsFile'.lines) = Len(studentsFile.lines)
           /\ studentsFile'.lines[1] = studentsFile.lines[1]
           /\ \A i \in RowLines(studentsFile) :
                 studentsFile'.lines[i] =
                    IF Field(studentsFile, i, "roll") = last'.roll
                    THEN <<last'.name, last'.roll, last'.desc>>
                    ELSE studentsFile.lines[i]
           /\ sheets' = sheets
           /\ subjectsFile' = subjectsFile]_vars

\* The roll replaced is the first of two roster records, and a sheet still has
\* its row under the name the student had before.
C13_Witness ==
    /\ last.op = "Upsert" /\ last.status = 201 /\ again
    /\ Len(studentsFile.lines) = 3
    /\ Field(studentsFile, 2, "roll") = last.roll
    /\ \E subject \in Subjects :
          \E i \in LinesOfRoll(sheets[subject], last.roll) :
              Field(sheets[subject], i, "name") # last.name

\* ---- C14 ---------------------------------------------------------------------------
\* The columns of the file.
Columns(file) ==
    IF file.lines = <<>> THEN {} ELSE {file.lines[1][j] : j \in 1..Len(file.lines[1])}

\* C14: a MarkPresent(subject, roll, date) that succeeded leaves the roster, the
\* registry and every other sheet as they were; in the subject's sheet every row
\* and every column is still there, every field is as it was but the one of roll
\* under date, at most one row is new and it is the row of roll, and no other row
\* is newly marked.
C14_MarkChangesOneCell ==
    [][(last'.op = "MarkPresent" /\ last'.status = 201)
        => LET old == sheets[last'.subject]
               new == sheets'[last'.subject]
           IN  /\ studentsFile' = studentsFile
               /\ subjectsFile' = subjectsFile
               /\ \A subject \in Subjects \ {last'.subject} :
                     sheets'[subject] = sheets[subject]
               /\ Columns(old) \subseteq Columns(new)
               /\ \A date \in Dates : PresentRolls(old, date) \subseteq PresentRolls(new, date)
               /\ old.exists =>
                     /\ RowLines(old) \subseteq RowLines(new)
                     /\ Cardinality(RowLines(new)) <= Cardinality(RowLines(old)) + 1
                     /\ \A i \in RowLines(new) \ RowLines(old) :
                           Field(new, i, "roll") = last'.roll
                     /\ \A i \in RowLines(old) :
                           /\ \A key \in Columns(old) :
                                 \/ Field(new, i, key) = Field(old, i, key)
                                 \/ /\ key = last'.date
                                    /\ Field(old, i, "roll") = last'.roll
                                    /\ Field(new, i, key) = "Present"
                           /\ Field(new, i, last'.date) = "Present"
                                 => \/ Field(old, i, last'.date) = "Present"
                                    \/ Field(old, i, "roll") = last'.roll]_vars

\* The mark of a roll that keeps its mark of the other date, next to a row of
\* another roll that is marked too.
C14_Witness ==
    /\ last.op = "MarkPresent" /\ last.status = 201
    /\ \A date \in Dates : last.roll \in PresentRolls(sheets[last.subject], date)
    /\ \E date \in Dates : PresentRolls(sheets[last.subject], date) \ {last.roll} # {}

\* ---- C15 ---------------------------------------------------------------------------
\* The subjects that have a sheet file.
WithSheet == {subject \in Subjects : sheets[subject].exists}

\* The subject fields of the registry file, in file order.
RegistryList(rf) ==
    IF rf.lines = <<>> THEN <<>>
    ELSE [i \in 1..(Len(rf.lines) - 1) |-> rf.lines[i + 1][1]]

\* C15: List subjects returns the registry's subjects, in their order, followed by
\* the subjects that have a sheet and no registry row, each once; it writes that
\* list to the registry and changes no other file; a second List right after
\* returns the same sequence and changes nothing.
C15_ListMergesSheets ==
    [][last'.op = "ListSubjects"
        => LET out == last'.out
           IN  /\ last'.status = 200
               /\ {out[i] : i \in 1..Len(out)} = Registered \cup WithSheet
               /\ \A i, j \in 1..Len(out) : out[i] = out[j] => i = j
               /\ SubSeq(out, 1, Len(RegistryList(subjectsFile))) = RegistryList(subjectsFile)
               /\ RegistryList(subjectsFile') = out
               /\ sheets' = sheets
               /\ studentsFile' = studentsFile
               /\ last.op = "ListSubjects"
                     => (last'.out = last.out /\ subjectsFile' = subjectsFile)]_vars

\* A List repeated, the registry holding a subject that came from a sheet.
C15_Witness ==
    /\ last.op = "ListSubjects" /\ again
    /\ Len(last.out) = 2
    /\ WithSheet # {}

\* ---- C16 ---------------------------------------------------------------------------
\* C16: GetOrCreate(subject), as it runs alone in a Create that succeeds and in a
\* MarkPresent that fails, makes the sheet only when there is none, seeded from the
\* roster with no date column, leaves a sheet that exists as it is whatever the
\* roster, and changes no other sheet; run once more it changes nothing.
C16_GetOrCreate ==
    [][(\/ last'.op = "Create" /\ last'.status = 201
        \/ last'.op = "MarkPresent" /\ last'.status = 500)
        => /\ IF sheets[last'.subject].exists
              THEN sheets'[last'.subject] = sheets[last'.subject]
              ELSE SeededFrom(sheets'[last'.subject], studentsFile)
           /\ \A subject \in Subjects \ {last'.subject} : sheets'[subject] = sheets[subject]
           /\ getOrCreateAttendanceFile(sheets', studentsFile', last'.subject) = sheets']_vars

\* A Create that found the sheet there, with rows that are not the roster's.
C16_Witness ==
    /\ last.op = "Create" /\ last.status = 201
    /\ RosterRolls # {}
    /\ SheetRolls(sheets[last.subject]) # RosterRolls
    /\ \E subject \in Subjects : SeededFrom(sheets[subject], studentsFile)

\* ---- C17 ---------------------------------------------------------------------------
\* C17: DeleteTodayColumn(subject) answers not found and leaves the sheet as it is
\* when there is no sheet or the sheet has no column of today; else it removes that
\* column and nothing more: every row is kept with its name, its roll and its
\* fields of the other dates, and QueryByDate(subject, today) is empty afterwards;
\* no other file changes.
C17_DeleteTodayRemovesOneColumn ==
    [][(last'.op = "DeleteTodayColumn" /\ last'.subject # Missing)
        => LET old == sheets[last'.subject]
               new == sheets'[last'.subject]
           IN  /\ studentsFile' = studentsFile
               /\ subjectsFile' = subjectsFile
               /\ \A subject \in Subjects \ {last'.subject} :
                     sheets'[subject] = sheets[subject]
               /\ IF ~old.exists \/ Today \notin Columns(old)
                  THEN last'.status = 404 /\ new = old
                  ELSE /\ last'.status = 200
                       /\ Columns(new) = Columns(old) \ {Today}
                       /\ RowLines(new) = RowLines(old)
                       /\ \A i \in RowLines(old) :
                             \A key \in Columns(old) \ {Today} :
                                 Field(new, i, key) = Field(old, i, key)
                       /\ queryResult(sheets', last'.subject, Today) = <<>>]_vars

MarkedIn(data, roll, date) ==
    \E i \in 1..Len(data) : Get(data[i], "roll") = roll /\ Get(data[i], date) = "Present"

\* Call p is over, a MarkPresent answered 201.
Marked(p) ==
    procs[p].pc = 0 /\ procs[p].req.op = "MarkPresent" /\ procs[p].status = 201

\* C11: when the write of a MarkPresent ends, the call answers 201 and the sheet
\* holds the marks of that call only, those it read and its own: a mark another
\* call wrote after this one read the sheet is gone, though it was answered 201.
C11_LastWriterWins ==
    [][\A p \in Procs :
          (procs[p].pc = 109 /\ procs'[p].pc = 0)
              => /\ procs'[p].status = 201
                 /\ \A roll \in Rolls, date \in Dates :
                       roll \in PresentRolls(sheets'[procs[p].req.subject], date)
                           => MarkedIn(procs[p].data, roll, date)]_vars

\* Two marks of one subject and two rolls that both read the sheet before
\* either wrote it, both answered 201; the mark of q was in the sheet when q
\* wrote it and the sheet, written by p since, holds the row of q without its
\* mark.
C11_Witness ==
    \E p, q \in Procs :
        /\ Marked(p) /\ Marked(q)
        /\ procs[p].req.subject = procs[q].req.subject
        /\ procs[p].req.roll # procs[q].req.roll
        /\ procs[q].overtook
        /\ procs[p].req.roll
              \in PresentRolls(sheets[procs[p].req.subject], procs[p].req.date)
        /\ procs[q].req.roll
              \notin PresentRolls(sheets[procs[q].req.subject], procs[q].req.date)
        /\ procs[q].req.roll \in SheetRolls(sheets[procs[q].req.subject])
        /\ {procs[p].req.roll, procs[q].req.roll} \subseteq RosterRolls

\* ---- C19 ---------------------------------------------------------------------------
\* The subjects the loop of the call has still to come to, the one at hand
\* among them.
Remaining(proc) == {Get(proc.subjects[i], "subject") : i \in 1..Len(proc.subjects)}

\* C19: when the write of a sheet fails in the loop of Delete(roll) or in the
\* fan-out of Upsert of a new roll, the call answers 500 and nothing is undone:
\* the roster, the registry and the other sheets stay as they are, so the roster
\* is without the roll while, after a Delete, the sheets the loop had done have
\* no row of the roll and, after an Upsert, the sheets the loop had done have it.
C19_FailedWriteUndoesNothing ==
    [][(procs[1].pc \in {158, 187} /\ procs'[1].threw = procs[1].pc)
        => LET proc == procs[1]
           IN  /\ procs'[1].status = 500
               /\ studentsFile' = studentsFile
               /\ subjectsFile' = subjectsFile
               /\ \A subject \in Subjects \ {currentSubject(proc)} :
                     sheets'[subject] = sheets[subject]
               /\ proc.req.roll \notin RosterRolls'
               /\ \A subject \in Registered \ Remaining(proc) :
                     IF proc.req.op = "Delete"
                     THEN proc.req.roll \notin SheetRolls(sheets'[subject])
                     ELSE proc.req.roll \in SheetRolls(sheets'[subject])]_vars

\* A Delete answered 500 for the write of a sheet that failed: the roster and
\* an earlier sheet, which has rows, are without the roll, a later sheet has it.
C19_Witness ==
    /\ procs[1].pc = 0 /\ procs[1].req.op = "Delete"
    /\ procs[1].status = 500 /\ procs[1].threw = 187
    /\ RosterRolls # {}
    /\ procs[1].req.roll \notin RosterRolls
    /\ \E i, j \in RowLines(subjectsFile) :
          /\ i < j
          /\ SheetRolls(sheets[Field(subjectsFile, i, "subject")]) = RosterRolls
          /\ procs[1].req.roll \in SheetRolls(sheets[Field(subjectsFile, j, "subject")])

\* An Upsert answered 500 for the write of a sheet that failed: the roster is
\* without the roll, an earlier sheet has it, a later sheet has not.
C19_UpsertLeftRows ==
    /\ procs[1].pc = 0 /\ procs[1].req.op = "Upsert"
    /\ procs[1].status = 500 /\ procs[1].threw = 158
    /\ procs[1].req.roll \notin RosterRolls
    /\ \E i, j \in RowLines(subjectsFile) :
          /\ i < j
          /\ procs[1].req.roll \in SheetRolls(sheets[Field(subjectsFile, i, "subject")])
          /\ sheets[Field(subjectsFile, j, "subject")].exists
          /\ procs[1].req.roll \notin SheetRolls(sheets[Field(subjectsFile, j, "subject")])

\* ---- C20 ---------------------------------------------------------------------------
\* No two row lines of the file have the same field under the key.
UniqueKey(file, key) ==
    \A i, j \in RowLines(file) : Field(file, i, key) = Field(file, j, key) => i = j

\* C20: the roster has at most one record per roll and the registry at most one
\* entry per subject, however the awaits of Upsert, Delete, Clear, Create and
\* List subjects calls interleave.
C20_OneRecordPerKey ==
    /\ UniqueKey(studentsFile, "roll")
    /\ UniqueKey(subjectsFile, "subject")

\* Two Upserts of one new roll that both found the roster without it: one has
\* written the roster and is answered, the other is in its fan-out.
C20_Witness ==
    \E p, q \in Procs :
        /\ procs[p].pc = 0 /\ procs[p].req.op = "Upsert" /\ procs[p].status = 201
        /\ procs[q].pc \in {150, 158, 163} /\ procs[q].req.op = "Upsert"
        /\ procs[q].req.roll = procs[p].req.roll
        /\ procs[q].subjects # <<>>
        /\ procs[q].req.roll \in RosterRolls

\* Two Creates of one new subject that both found the registry without it: one
\* has written the registry and is answered, the other is about to write it.
C20_CreatesRaced ==
    \E p, q \in Procs :
        /\ procs[p].pc = 0 /\ procs[p].req.op = "Create" /\ procs[p].status = 201
        /\ procs[q].pc = 325 /\ procs[q].req.subject = procs[p].req.subject
        /\ procs[q].req.subject \in Registered

====
